---- MODULE Spec2Model ----
(***************************************************************************)
(* Query matching core of the fuzzy finder (pattern.go, printed after the  *)
(* migemo regex cache in src/src/migemo/migemo.go): the extended-query     *)
(* parser, Pattern construction with the process-wide pattern memo table,  *)
(* item and chunk matching, and the chunk result cache with prefix/suffix  *)
(* ancestor reuse.                                                         *)
(*                                                                         *)
(* A Go string is modelled as a sequence of one-character strings, so that *)
(* trimming, splitting, case folding and slicing are computed character by *)
(* character.                                                              *)
(***************************************************************************)
EXTENDS Integers, Sequences, FiniteSets, TLC

VARIABLES
    fuzzy,          \* BuildPattern argument, fixed while the program runs
    extended,       \* BuildPattern argument, fixed while the program runs
    caseMode,       \* BuildPattern argument, fixed while the program runs
    _patternCache,  \* map[string]*Pattern
    nextId,         \* identity of the next Pattern object allocated by &Pattern{}
    _cache,         \* ChunkCache: <<chunk, key>> -> list of matched items
    nth,            \* BuildPattern argument (field ranges), fixed while the program runs
    chunks,         \* chunk -> its Items, each with its transformed slot
    input,          \* the runes typed by the user (one-shot specifications)
    built,          \* the last BuildPattern call: runes, normalized string, result
    issued,         \* normalized string -> identities returned since the last clear
    call,           \* the last Match call and what it did
    prev,           \* the Match call before it (same cache generation)
    mi,             \* the last MatchItem call
    wk,             \* worker -> where it is in BuildPattern or Match, and its locals
    races,          \* what the unsynchronized accesses of the workers have caused
    regexCache,     \* cache, map[string]*regexp.Regexp of the migemo part
    mutex,          \* the worker holding mutex, if any
    rx,             \* worker -> where it is in regex(pattern), and its locals
    compiled,       \* pattern -> the objects migemo.Compile has made for it
    handed          \* pattern -> the objects regex(pattern) has returned

vars == <<fuzzy, extended, caseMode, _patternCache, nextId, _cache, nth, chunks,
          input, built, issued, call, prev, mi, wk, races,
          regexCache, mutex, rx, compiled, handed>>

modeVars == <<fuzzy, extended, caseMode, nth>>
memoVars == <<_patternCache, nextId, built, issued>>
matchVars == <<_cache, chunks, call, prev>>
concVars == <<wk, races>>
regexVars == <<regexCache, mutex, rx, compiled, handed>>

---------------------------------------------------------------------------
(* Bounds of the model. *)

\* Pattern objects the process may allocate.
MaxPatterns == 2
\* Longest single token typed in the one-shot build specification.
MaxTokLen == 3
\* Most tokens of a multi-token query in the one-shot build specification.
MaxTokens == 4

\* An absent value; a present one is the one-element sequence <<v>>.
None == <<>>

---------------------------------------------------------------------------
(* Strings. *)

\* strings.ToLower on one character
LowerChar(c) ==
    CASE c = "A" -> "a"
      [] c = "B" -> "b"
      [] c = "F" -> "f"
      [] OTHER -> c

ToLower(s) == IF s = <<>> THEN <<>> ELSE [i \in 1..Len(s) |-> LowerChar(s[i])]

HasPrefix(s, c) == Len(s) > 0 /\ s[1] = c

HasSuffix(s, c) == Len(s) > 0 /\ s[Len(s)] = c

\* s[lo:hi] of Go (0-based, hi exclusive)
Slice(s, lo, hi) == IF hi <= lo THEN <<>> ELSE SubSeq(s, lo + 1, hi)

RECURSIVE TrimLeft(_)
TrimLeft(s) == IF HasPrefix(s, " ") THEN TrimLeft(Tail(s)) ELSE s

RECURSIVE TrimRight(_)
TrimRight(s) == IF HasSuffix(s, " ") THEN TrimRight(SubSeq(s, 1, Len(s) - 1)) ELSE s

\* strings.Trim(s, " ")
Trim(s) == TrimRight(TrimLeft(s))

\* _splitRegex.Split(str, -1) with _splitRegex = \s+ : the pieces between the
\* maximal runs of white space; a leading or trailing run leaves an empty piece,
\* and the empty string splits into one empty piece.
RECURSIVE SplitFrom(_, _, _)
SplitFrom(s, i, cur) ==
    IF i > Len(s) THEN <<cur>>
    ELSE IF s[i] = " "
         THEN IF i > 1 /\ s[i - 1] = " "
              THEN SplitFrom(s, i + 1, cur)
              ELSE <<cur>> \o SplitFrom(s, i + 1, <<>>)
         ELSE SplitFrom(s, i + 1, Append(cur, s[i]))

Split(s) == SplitFrom(s, 1, <<>>)

RECURSIVE Join(_)
Join(strs) ==
    IF Len(strs) = 0 THEN <<>>
    ELSE IF Len(strs) = 1 THEN strs[1]
    ELSE strs[1] \o <<" ">> \o Join(Tail(strs))

---------------------------------------------------------------------------
(* parseTerms *)

CaseModes == {"CaseSmart", "CaseIgnore", "CaseRespect"}

\* parseToken with the suffix test "$" made before the prefix test "^".
parseToken_SuffixFirst(fz, cm, token) ==
    LET lowerText == ToLower(token)
        caseSensitive == cm = "CaseRespect" \/ (cm = "CaseSmart" /\ token # lowerText)
        text0 == IF caseSensitive THEN token ELSE lowerText
        inv == HasPrefix(text0, "!")
        text1 == IF inv THEN Slice(text0, 1, Len(text0)) ELSE text0
        quote == HasPrefix(text1, "'")
        dollar == ~quote /\ HasSuffix(text1, "$")
        caret == ~quote /\ ~dollar /\ HasPrefix(text1, "^")
    IN [pipe |-> text0 = <<"|">>,
        term |-> [typ |-> IF quote THEN (IF fz THEN "termExact" ELSE "termFuzzy")
                          ELSE IF dollar THEN "termSuffix"
                          ELSE IF caret THEN "termPrefix"
                          ELSE IF fz THEN "termFuzzy" ELSE "termExact",
                  inv |-> inv,
                  text |-> IF quote \/ caret THEN Slice(text1, 1, Len(text1))
                           ELSE IF dollar THEN Slice(text1, 0, Len(text1) - 1)
                           ELSE text1,
                  caseSensitive |-> caseSensitive, origText |-> text0]]

\* parseToken taking origText from the token before the case folding.
parseToken_OrigUnfolded(fz, cm, token) ==
    LET lowerText == ToLower(token)
        caseSensitive == cm = "CaseRespect" \/ (cm = "CaseSmart" /\ token # lowerText)
        text0 == IF caseSensitive THEN token ELSE lowerText
        inv == HasPrefix(text0, "!")
        text1 == IF inv THEN Slice(text0, 1, Len(text0)) ELSE text0
        caret == HasPrefix(text1, "^")
        dollar == HasSuffix(text1, "$")
        quote == HasPrefix(text1, "'")
    IN [pipe |-> text0 = <<"|">>,
        term |-> [typ |-> IF quote THEN (IF fz THEN "termExact" ELSE "termFuzzy")
                          ELSE IF caret /\ dollar THEN "termEqual"
                          ELSE IF caret THEN "termPrefix"
                          ELSE IF dollar THEN "termSuffix"
                          ELSE IF fz THEN "termFuzzy" ELSE "termExact",
                  inv |-> inv,
                  text |-> IF quote THEN Slice(text1, 1, Len(text1))
                           ELSE IF caret /\ dollar THEN Slice(text1, 1, Len(text1) - 1)
                           ELSE IF caret THEN Slice(text1, 1, Len(text1))
                           ELSE IF dollar THEN Slice(text1, 0, Len(text1) - 1)
                           ELSE text1,
                  caseSensitive |-> caseSensitive, origText |-> token]]

\* One iteration of the loop over tokens, up to the test len(text) > 0:
\* the term the token stands for, with pipe = TRUE for the literal "|".
parseToken(fz, cm, token) ==
    LET lowerText == ToLower(token)
        caseSensitive == cm = "CaseRespect" \/ (cm = "CaseSmart" /\ token # lowerText)
        text0 == IF caseSensitive THEN token ELSE lowerText
        origText == text0
        typ0 == IF fz THEN "termFuzzy" ELSE "termExact"
        inv == HasPrefix(text0, "!")
        text1 == IF inv THEN Slice(text0, 1, Len(text0)) ELSE text0
        typ == IF HasPrefix(text1, "'")
               THEN (IF fz THEN "termExact" ELSE "termFuzzy")
               ELSE IF HasPrefix(text1, "^")
                    THEN (IF HasSuffix(text1, "$") THEN "termEqual" ELSE "termPrefix")
                    ELSE IF HasSuffix(text1, "$") THEN "termSuffix" ELSE typ0
        text == IF HasPrefix(text1, "'") THEN Slice(text1, 1, Len(text1))
                ELSE IF HasPrefix(text1, "^")
                     THEN (IF HasSuffix(text1, "$")
                           THEN Slice(text1, 1, Len(text1) - 1)
                           ELSE Slice(text1, 1, Len(text1)))
                     ELSE IF HasSuffix(text1, "$")
                          THEN Slice(text1, 0, Len(text1) - 1)
                          ELSE text1
    IN [pipe |-> text0 = <<"|">>,
        term |-> [typ |-> typ, inv |-> inv, text |-> text,
                  caseSensitive |-> caseSensitive, origText |-> origText]]

\* parseLoop with the literal "|" leaving switchSet as it is.
RECURSIVE parseLoop_PipeIgnored(_, _, _, _, _, _, _)
parseLoop_PipeIgnored(fz, cm, tokens, i, sets, set, switchSet) ==
    IF i > Len(tokens)
    THEN (IF Len(set) > 0 THEN Append(sets, set) ELSE sets)
    ELSE LET t == parseToken(fz, cm, tokens[i])
         IN IF t.pipe
            THEN parseLoop_PipeIgnored(fz, cm, tokens, i + 1, sets, set, switchSet)
            ELSE IF Len(t.term.text) > 0
                 THEN IF switchSet
                      THEN parseLoop_PipeIgnored(fz, cm, tokens, i + 1,
                                                 Append(sets, set), <<t.term>>, TRUE)
                      ELSE parseLoop_PipeIgnored(fz, cm, tokens, i + 1,
                                                 sets, Append(set, t.term), TRUE)
                 ELSE parseLoop_PipeIgnored(fz, cm, tokens, i + 1, sets, set, switchSet)

\* parseLoop without the test len(text) > 0.
RECURSIVE parseLoop_KeepEmpty(_, _, _, _, _, _, _)
parseLoop_KeepEmpty(fz, cm, tokens, i, sets, set, switchSet) ==
    IF i > Len(tokens)
    THEN (IF Len(set) > 0 THEN Append(sets, set) ELSE sets)
    ELSE LET t == parseToken(fz, cm, tokens[i])
         IN IF t.pipe
            THEN parseLoop_KeepEmpty(fz, cm, tokens, i + 1, sets, set, FALSE)
            ELSE IF switchSet
                 THEN parseLoop_KeepEmpty(fz, cm, tokens, i + 1,
                                          Append(sets, set), <<t.term>>, TRUE)
                 ELSE parseLoop_KeepEmpty(fz, cm, tokens, i + 1,
                                          sets, Append(set, t.term), TRUE)

\* The loop of parseTerms from token i on, with its three locals.
RECURSIVE parseLoop(_, _, _, _, _, _, _)
parseLoop(fz, cm, tokens, i, sets, set, switchSet) ==
    IF i > Len(tokens)
    THEN (IF Len(set) > 0 THEN Append(sets, set) ELSE sets)
    ELSE LET t == parseToken(fz, cm, tokens[i])
         IN IF t.pipe
            THEN parseLoop(fz, cm, tokens, i + 1, sets, set, FALSE)
            ELSE IF Len(t.term.text) > 0
                 THEN IF switchSet
                      THEN parseLoop(fz, cm, tokens, i + 1,
                                     Append(sets, set), <<t.term>>, TRUE)
                      ELSE parseLoop(fz, cm, tokens, i + 1,
                                     sets, Append(set, t.term), TRUE)
                 ELSE parseLoop(fz, cm, tokens, i + 1, sets, set, switchSet)

parseTerms(fz, cm, str) == parseLoop(fz, cm, Split(str), 1, <<>>, <<>>, FALSE)

---------------------------------------------------------------------------
(* BuildPattern and the pattern memo table *)

\* The loop of BuildPattern testing term.inv only, without idx > 0.
Cacheable_InvOnly(termSets) ==
    \A s \in 1..Len(termSets) :
        \A idx \in 1..Len(termSets[s]) : ~termSets[s][idx].inv

\* The loop labelled Loop in BuildPattern.
Cacheable(termSets) ==
    \A s \in 1..Len(termSets) :
        \A idx \in 1..Len(termSets[s]) :
            ~(idx > 1 \/ termSets[s][idx].inv)

\* NewPattern with the case of the query decided without looking at its text.
NewPattern_CaseByMode(id, fz, ext, cm, asString) ==
    LET caseSensitive == IF ext THEN TRUE ELSE cm # "CaseIgnore"
        termSets == IF ext
                    THEN [s \in 1..Len(parseTerms(fz, cm, asString)) |->
                            [t \in 1..Len(parseTerms(fz, cm, asString)[s]) |->
                               LET term == parseTerms(fz, cm, asString)[s][t]
                               IN [term EXCEPT !.caseSensitive = cm # "CaseIgnore"]]]
                    ELSE <<>>
    IN [id |-> id,
        fuzzy |-> fz,
        extended |-> ext,
        caseSensitive |-> caseSensitive,
        text |-> IF ~ext /\ ~caseSensitive THEN ToLower(asString) ELSE asString,
        termSets |-> termSets,
        cacheable |-> IF ext THEN Cacheable(termSets) ELSE TRUE]

\* The object BuildPattern allocates when the memo table misses.
NewPattern(id, fz, ext, cm, asString) ==
    LET lowerString == ToLower(asString)
        caseSensitive == IF ext THEN TRUE
                         ELSE cm = "CaseRespect"
                              \/ (cm = "CaseSmart" /\ lowerString # asString)
        termSets == IF ext THEN parseTerms(fz, cm, asString) ELSE <<>>
    IN [id |-> id,
        fuzzy |-> fz,
        extended |-> ext,
        caseSensitive |-> caseSensitive,
        text |-> IF ~ext /\ ~caseSensitive THEN lowerString ELSE asString,
        termSets |-> termSets,
        cacheable |-> IF ext THEN Cacheable(termSets) ELSE TRUE]

\* asString as computed at the top of BuildPattern
Normalize(ext, runes) == IF ext THEN Trim(runes) ELSE runes

Put(f, k, v) == [x \in DOMAIN f \cup {k} |-> IF x = k THEN v ELSE f[x]]

BuildPattern(runes) ==
    LET asString == Normalize(extended, runes)
        found == asString \in DOMAIN _patternCache
        ptr == IF found THEN _patternCache[asString]
               ELSE NewPattern(nextId, fuzzy, extended, caseMode, asString)
        seen == IF asString \in DOMAIN issued THEN issued[asString] ELSE {}
    IN /\ ~found => nextId <= MaxPatterns
       /\ _patternCache' = IF found THEN _patternCache
                           ELSE Put(_patternCache, ptr.text, ptr)
       /\ nextId' = IF found THEN nextId ELSE nextId + 1
       /\ built' = <<[runes |-> runes, asString |-> asString, pat |-> ptr]>>
       /\ issued' = Put(issued, asString, seen \cup {ptr.id})
       /\ UNCHANGED <<modeVars, matchVars, input, mi, concVars, regexVars>>

clearPatternCache ==
    /\ _patternCache # <<>>
    /\ _patternCache' = <<>>
    /\ issued' = <<>>
    /\ UNCHANGED <<nextId, built, modeVars, matchVars, input, mi, concVars, regexVars>>

---------------------------------------------------------------------------
(* The matcher functions of package algo, bound in procFun: each returns   *)
(* <<sidx, eidx>>, the span of the match in text, or <<-1, -1>>.           *)

Forward == TRUE

NoMatch == <<-1, -1>>

\* The text as the matchers compare it: lower-cased unless case-sensitive.
Folded(caseSensitive, text) == IF caseSensitive THEN text ELSE ToLower(text)

\* The end (1-based) of the leftmost greedy embedding of pattern[j..] in t[i..]
RECURSIVE GreedyEnd(_, _, _, _)
GreedyEnd(t, pattern, i, j) ==
    IF i > Len(t) THEN 0
    ELSE IF t[i] = pattern[j]
         THEN (IF j = Len(pattern) THEN i ELSE GreedyEnd(t, pattern, i + 1, j + 1))
         ELSE GreedyEnd(t, pattern, i + 1, j)

\* The start (1-based) of the greedy embedding read backward from position i
RECURSIVE GreedyStart(_, _, _, _)
GreedyStart(t, pattern, i, j) ==
    IF t[i] = pattern[j]
    THEN (IF j = 1 THEN i ELSE GreedyStart(t, pattern, i - 1, j - 1))
    ELSE GreedyStart(t, pattern, i - 1, j)

FuzzyMatch(caseSensitive, forward, text, pattern) ==
    LET t == Folded(caseSensitive, text)
        e == GreedyEnd(t, pattern, 1, 1)
    IN IF Len(pattern) = 0 THEN <<0, 0>>
       ELSE IF e = 0 THEN NoMatch
       ELSE <<GreedyStart(t, pattern, e, Len(pattern)) - 1, e>>

OccursAt(t, pattern, i) ==
    /\ i + Len(pattern) <= Len(t)
    /\ \A k \in 1..Len(pattern) : t[i + k] = pattern[k]

ExactMatchNaive(caseSensitive, forward, text, pattern) ==
    LET t == Folded(caseSensitive, text)
        at == {i \in 0..Len(t) : OccursAt(t, pattern, i)}
        first == CHOOSE i \in at : \A k \in at : i <= k
    IN IF Len(pattern) = 0 THEN <<0, 0>>
       ELSE IF at = {} THEN NoMatch
       ELSE <<first, first + Len(pattern)>>

PrefixMatch(caseSensitive, forward, text, pattern) ==
    LET t == Folded(caseSensitive, text)
    IN IF OccursAt(t, pattern, 0) THEN <<0, Len(pattern)>> ELSE NoMatch

\* util.TrimLen and the trimming of SuffixMatch: the length without the
\* white space at either end (at the right end only for SuffixMatch).
TrimLen(text) == Len(Trim(text))

SuffixMatch(caseSensitive, forward, text, pattern) ==
    LET t == TrimRight(Folded(caseSensitive, text))
        diff == Len(t) - Len(pattern)
    IN IF diff >= 0 /\ OccursAt(t, pattern, diff) THEN <<diff, Len(t)>> ELSE NoMatch

EqualMatch(caseSensitive, forward, text, pattern) ==
    IF Folded(caseSensitive, text) = pattern THEN <<0, Len(pattern)>> ELSE NoMatch

\* p.procFun[typ], as BuildPattern fills it
procFun(typ, caseSensitive, forward, text, pattern) ==
    CASE typ = "termFuzzy" -> FuzzyMatch(caseSensitive, forward, text, pattern)
      [] typ = "termEqual" -> EqualMatch(caseSensitive, forward, text, pattern)
      [] typ = "termExact" -> ExactMatchNaive(caseSensitive, forward, text, pattern)
      [] typ = "termPrefix" -> PrefixMatch(caseSensitive, forward, text, pattern)
      [] typ = "termSuffix" -> SuffixMatch(caseSensitive, forward, text, pattern)

---------------------------------------------------------------------------
(* Field projection: Tokenize, Transform, prepareInput *)

Delimiter == ","

\* Tokenize(text, delimiter): the fields between delimiters, each with the
\* number of runes before it in text and its trimmed length.
RECURSIVE TokenizeFrom(_, _, _, _)
TokenizeFrom(text, i, start, cur) ==
    LET tok == [text |-> cur, prefixLength |-> start, trimLength |-> TrimLen(cur)]
    IN IF i > Len(text) THEN <<tok>>
       ELSE IF text[i] = Delimiter
            THEN <<tok>> \o TokenizeFrom(text, i + 1, i, <<>>)
            ELSE TokenizeFrom(text, i + 1, start, Append(cur, text[i]))

Tokenize(text) == TokenizeFrom(text, 1, 0, <<>>)

\* Transform(tokens, nth): the fields the ranges select, in range order.
RECURSIVE Transform(_, _)
Transform(tokens, ranges) ==
    IF Len(ranges) = 0 THEN <<>>
    ELSE (IF ranges[1] \in 1..Len(tokens) THEN <<tokens[ranges[1]]>> ELSE <<>>)
         \o Transform(tokens, Tail(ranges))

\* The projection prepareInput computes when the slot is empty.
Projection(ranges, text) ==
    IF Len(ranges) > 0
    THEN Transform(Tokenize(text), ranges)
    ELSE <<[text |-> text, prefixLength |-> 0, trimLength |-> TrimLen(text)]>>

\* prepareInput: the value returned ...
prepareInput(ranges, item) ==
    IF item.transformed # None THEN item.transformed[1]
    ELSE Projection(ranges, item.text)

\* prepareInput writing the slot from the field ranges whether or not any is
\* configured, while returning the right value.
Prepared_AlwaysRanges(ranges, item) ==
    IF item.transformed # None THEN item
    ELSE [item EXCEPT !.transformed = <<Transform(Tokenize(item.text), ranges)>>]

\* ... and the item after the call, its slot written when it was empty.
Prepared(ranges, item) ==
    IF item.transformed # None THEN item
    ELSE [item EXCEPT !.transformed = <<Projection(ranges, item.text)>>]

---------------------------------------------------------------------------
(* Matching one item *)

RECURSIVE iterFrom(_, _, _, _, _, _)
iterFrom(typ, tokens, k, caseSensitive, forward, pattern) ==
    IF k > Len(tokens) THEN <<-1, -1, -1>>
    ELSE LET part == tokens[k]
             r == procFun(typ, caseSensitive, forward, part.text, pattern)
         IN IF r[1] >= 0
            THEN <<r[1] + part.prefixLength, r[2] + part.prefixLength, part.trimLength>>
            ELSE iterFrom(typ, tokens, k + 1, caseSensitive, forward, pattern)

iter(typ, tokens, caseSensitive, forward, pattern) ==
    iterFrom(typ, tokens, 1, caseSensitive, forward, pattern)

basicMatch(p, ranges, item) ==
    LET in == prepareInput(ranges, item)
    IN IF p.fuzzy
       THEN iter("termFuzzy", in, p.caseSensitive, Forward, p.text)
       ELSE iter("termExact", in, p.caseSensitive, Forward, p.text)

\* extendedMatch giving up a group when its first Term misses.
RECURSIVE extendedFrom_FirstTermOnly(_, _, _, _, _)
extendedFrom_FirstTermOnly(p, in, s, t, offsets) ==
    IF s > Len(p.termSets) THEN offsets
    ELSE LET term == p.termSets[s][t]
             r == iter(term.typ, in, term.caseSensitive, Forward, term.text)
         IN IF r[1] >= 0
            THEN (IF term.inv THEN offsets
                  ELSE extendedFrom_FirstTermOnly(p, in, s + 1, 1, Append(offsets, r)))
            ELSE IF term.inv
                 THEN extendedFrom_FirstTermOnly(p, in, s + 1, 1, Append(offsets, <<0, 0, 0>>))
                 ELSE extendedFrom_FirstTermOnly(p, in, s + 1, 1, offsets)

\* extendedMatch recording nothing for an inverted Term that misses.
RECURSIVE extendedFrom_NoPlaceholder(_, _, _, _, _)
extendedFrom_NoPlaceholder(p, in, s, t, offsets) ==
    IF s > Len(p.termSets) THEN offsets
    ELSE IF t > Len(p.termSets[s]) THEN extendedFrom_NoPlaceholder(p, in, s + 1, 1, offsets)
    ELSE LET term == p.termSets[s][t]
             r == iter(term.typ, in, term.caseSensitive, Forward, term.text)
         IN IF r[1] >= 0
            THEN (IF term.inv THEN offsets
                  ELSE extendedFrom_NoPlaceholder(p, in, s + 1, 1, Append(offsets, r)))
            ELSE IF term.inv
                 THEN extendedFrom_NoPlaceholder(p, in, s + 1, 1, offsets)
                 ELSE extendedFrom_NoPlaceholder(p, in, s, t + 1, offsets)

\* extendedMatch leaving only the group, not the loop over the groups, when an
\* inverted Term hits ("break" in place of "break Loop").
RECURSIVE extendedFrom_BreakGroupOnly(_, _, _, _, _)
extendedFrom_BreakGroupOnly(p, in, s, t, offsets) ==
    IF s > Len(p.termSets) THEN offsets
    ELSE IF t > Len(p.termSets[s]) THEN extendedFrom_BreakGroupOnly(p, in, s + 1, 1, offsets)
    ELSE LET term == p.termSets[s][t]
             r == iter(term.typ, in, term.caseSensitive, Forward, term.text)
         IN IF r[1] >= 0
            THEN (IF term.inv THEN extendedFrom_BreakGroupOnly(p, in, s + 1, 1, offsets)
                  ELSE extendedFrom_BreakGroupOnly(p, in, s + 1, 1, Append(offsets, r)))
            ELSE IF term.inv
                 THEN extendedFrom_BreakGroupOnly(p, in, s + 1, 1, Append(offsets, <<0, 0, 0>>))
                 ELSE extendedFrom_BreakGroupOnly(p, in, s, t + 1, offsets)

\* The loop labelled Loop in extendedMatch, from term t of termSet s on.
RECURSIVE extendedFrom(_, _, _, _, _)
extendedFrom(p, in, s, t, offsets) ==
    IF s > Len(p.termSets) THEN offsets
    ELSE IF t > Len(p.termSets[s]) THEN extendedFrom(p, in, s + 1, 1, offsets)
    ELSE LET term == p.termSets[s][t]
             r == iter(term.typ, in, term.caseSensitive, Forward, term.text)
         IN IF r[1] >= 0
            THEN (IF term.inv THEN offsets
                  ELSE extendedFrom(p, in, s + 1, 1, Append(offsets, r)))
            ELSE IF term.inv
                 THEN extendedFrom(p, in, s + 1, 1, Append(offsets, <<0, 0, 0>>))
                 ELSE extendedFrom(p, in, s, t + 1, offsets)

extendedMatch(p, ranges, item) ==
    extendedFrom(p, prepareInput(ranges, item), 1, 1, <<>>)

\* MatchItem: the value returned
MatchItem(p, ranges, item) ==
    IF ~p.extended
    THEN basicMatch(p, ranges, item)[1] >= 0
    ELSE Len(extendedMatch(p, ranges, item)) = Len(p.termSets)

\* sort.Sort(ByOrder(offsets)): by start, then by end
ByOrderLess(x, y) == x[1] < y[1] \/ (x[1] = y[1] /\ x[2] <= y[2])

RECURSIVE Insert(_, _)
Insert(sorted, x) ==
    IF Len(sorted) = 0 THEN <<x>>
    ELSE IF ByOrderLess(Head(sorted), x)
         THEN <<Head(sorted)>> \o Insert(Tail(sorted), x)
         ELSE <<x>> \o sorted

RECURSIVE SortByOrder(_)
SortByOrder(offsets) ==
    IF Len(offsets) = 0 THEN <<>>
    ELSE Insert(SortByOrder(Tail(offsets)), Head(offsets))

dupItem(item, offsets) ==
    [index |-> item.index, text |-> item.text, transformed |-> item.transformed,
     offsets |-> SortByOrder(offsets)]

---------------------------------------------------------------------------
(* Matching a chunk *)

\* matchChunk putting each match in front of the matches collected so far.
RECURSIVE matchChunk_Prepending(_, _, _)
matchChunk_Prepending(p, ranges, items) ==
    IF Len(items) = 0 THEN <<>>
    ELSE LET item == Prepared(ranges, Head(items))
             rest == matchChunk_Prepending(p, ranges, Tail(items))
         IN IF ~p.extended
            THEN LET r == basicMatch(p, ranges, Head(items))
                 IN IF r[1] >= 0 THEN rest \o <<dupItem(item, <<r>>)>> ELSE rest
            ELSE LET offsets == extendedMatch(p, ranges, Head(items))
                 IN IF Len(offsets) = Len(p.termSets)
                    THEN rest \o <<dupItem(item, offsets)>>
                    ELSE rest

\* matchChunk: the matches, in the order of the items scanned
RECURSIVE matchChunk(_, _, _)
matchChunk(p, ranges, items) ==
    IF Len(items) = 0 THEN <<>>
    ELSE LET item == Prepared(ranges, Head(items))
             rest == matchChunk(p, ranges, Tail(items))
         IN IF ~p.extended
            THEN LET r == basicMatch(p, ranges, Head(items))
                 IN IF r[1] >= 0 THEN <<dupItem(item, <<r>>)>> \o rest ELSE rest
            ELSE LET offsets == extendedMatch(p, ranges, Head(items))
                 IN IF Len(offsets) = Len(p.termSets)
                    THEN <<dupItem(item, offsets)>> \o rest
                    ELSE rest

AsString(p) == p.text

RECURSIVE cacheableTerms(_)
cacheableTerms(termSets) ==
    IF Len(termSets) = 0 THEN <<>>
    ELSE (IF Len(Head(termSets)) = 1 /\ ~Head(termSets)[1].inv
          THEN <<Head(termSets)[1].origText>> ELSE <<>>)
         \o cacheableTerms(Tail(termSets))

CacheKey(p) == IF ~p.extended THEN AsString(p) ELSE Join(cacheableTerms(p.termSets))

IsEmpty(p) == IF ~p.extended THEN Len(p.text) = 0 ELSE Len(p.termSets) = 0

\* ChunkCache.Find and ChunkCache.Add
Find(cache, chunk, key) == <<chunk, key>> \in DOMAIN cache

Add(cache, chunk, key, list) == Put(cache, <<chunk, key>>, list)

\* The loop of Match trying the suffix before the prefix.
RECURSIVE Ancestors_SuffixFirst(_, _)
Ancestors_SuffixFirst(cacheKey, idx) ==
    IF idx >= Len(cacheKey) THEN <<>>
    ELSE <<Slice(cacheKey, idx, Len(cacheKey)), Slice(cacheKey, 0, Len(cacheKey) - idx)>>
         \o Ancestors_SuffixFirst(cacheKey, idx + 1)

\* The keys the loop of Match tries, in order: for idx = 1, 2, ... the key
\* without its last idx characters, then the key without its first idx characters.
RECURSIVE Ancestors(_, _)
Ancestors(cacheKey, idx) ==
    IF idx >= Len(cacheKey) THEN <<>>
    ELSE <<Slice(cacheKey, 0, Len(cacheKey) - idx), Slice(cacheKey, idx, Len(cacheKey))>>
         \o Ancestors(cacheKey, idx + 1)

\* The number of keys of tried that are looked up: all of them, or up to the
\* first one found.
RECURSIVE Probed(_, _, _, _)
Probed(cache, chunk, tried, k) ==
    IF k > Len(tried) THEN Len(tried)
    ELSE IF Find(cache, chunk, tried[k]) THEN k
    ELSE Probed(cache, chunk, tried, k + 1)

\* The exact lookup made without the test of p.cacheable.
ExactHit_Unguarded(p, cache, chunk) == Find(cache, chunk, CacheKey(p))

\* "ChunkCache: Exact match": the exact key is looked up, and found.
ExactHit(p, cache, chunk) == p.cacheable /\ Find(cache, chunk, CacheKey(p))

\* Match after the exact lookup: the ancestor loop and the scan.
ScanCall(p, ranges, cache, chunk, items) ==
    LET tried == Ancestors(CacheKey(p), 1)
        n == Probed(cache, chunk, tried, 1)
        found == n > 0 /\ Find(cache, chunk, tried[n])
        space == IF found THEN cache[<<chunk, tried[n]>>] ELSE items
    IN [hit |-> IF found THEN "ancestor" ELSE "none",
        probes |-> SubSeq(tried, 1, n),
        space |-> space,
        matches |-> matchChunk(p, ranges, space),
        items |-> IF found THEN items
                  ELSE [k \in 1..Len(items) |-> Prepared(ranges, items[k])]]

\* Match storing its result whether or not the Pattern is cacheable.
MatchCall_AlwaysAdd(p, ranges, cache, chunk, items) ==
    LET cacheKey == CacheKey(p)
        sc == ScanCall(p, ranges, cache, chunk, items)
    IN IF ExactHit(p, cache, chunk)
       THEN [pat |-> p, chunk |-> chunk, key |-> cacheKey, hit |-> "exact",
             probes |-> <<cacheKey>>, space |-> <<>>,
             ret |-> cache[<<chunk, cacheKey>>],
             before |-> cache, cache |-> cache, items |-> items]
       ELSE [pat |-> p, chunk |-> chunk, key |-> cacheKey, hit |-> sc.hit,
             probes |-> (IF p.cacheable THEN <<cacheKey>> ELSE <<>>) \o sc.probes,
             space |-> sc.space,
             ret |-> sc.matches, before |-> cache,
             cache |-> Add(cache, chunk, cacheKey, sc.matches),
             items |-> sc.items]

\* What one call of p.Match(chunk) does, given the cache and the chunk's items.
MatchCall(p, ranges, cache, chunk, items) ==
    LET cacheKey == CacheKey(p)
        sc == ScanCall(p, ranges, cache, chunk, items)
    IN IF ExactHit(p, cache, chunk)
       THEN [pat |-> p, chunk |-> chunk, key |-> cacheKey, hit |-> "exact",
             probes |-> <<cacheKey>>, space |-> <<>>,
             ret |-> cache[<<chunk, cacheKey>>],
             before |-> cache, cache |-> cache, items |-> items]
       ELSE [pat |-> p, chunk |-> chunk, key |-> cacheKey, hit |-> sc.hit,
             probes |-> (IF p.cacheable THEN <<cacheKey>> ELSE <<>>) \o sc.probes,
             space |-> sc.space,
             ret |-> sc.matches, before |-> cache,
             cache |-> IF p.cacheable THEN Add(cache, chunk, cacheKey, sc.matches)
                       ELSE cache,
             items |-> sc.items]

Match(chunk) ==
    /\ built # None
    /\ call' = <<MatchCall(built[1].pat, nth, _cache, chunk, chunks[chunk])>>
    /\ _cache' = call'[1].cache
    /\ chunks' = [chunks EXCEPT ![chunk] = call'[1].items]
    /\ prev' = call
    /\ UNCHANGED <<modeVars, memoVars, input, mi, concVars, regexVars>>

clearChunkCache ==
    /\ _cache # <<>>
    /\ _cache' = <<>>
    /\ call' = None
    /\ prev' = None
    /\ UNCHANGED <<chunks, modeVars, memoVars, input, mi, concVars, regexVars>>

\* p.MatchItem(item) on an item of the candidate list
MatchItemCall(text) ==
    /\ built # None
    /\ mi = None
    /\ LET item == [index |-> 0, text |-> text, transformed |-> None, offsets |-> <<>>]
           p == built[1].pat
       IN mi' = <<[item |-> Prepared(nth, item),
                   offsets |-> IF p.extended THEN extendedMatch(p, nth, item)
                               ELSE <<basicMatch(p, nth, item)>>,
                   ret |-> MatchItem(p, nth, item)]>>
    /\ UNCHANGED <<modeVars, memoVars, matchVars, input, concVars, regexVars>>

---------------------------------------------------------------------------
(* One-shot specification of BuildPattern: the program starts, the user    *)
(* types one query, BuildPattern is called on it.                          *)

TokChars == {"a", "A", "^", "$", "'", "!", "|"}

RECURSIVE StrsUpTo(_, _)
StrsUpTo(chars, n) ==
    IF n = 0 THEN {<<>>}
    ELSE LET shorter == StrsUpTo(chars, n - 1)
         IN shorter \cup {Append(s, c) : s \in shorter, c \in chars}

SingleTokens == StrsUpTo(TokChars, MaxTokLen)

GroupTokens == {<<"a">>, <<"b">>, <<"c">>, <<"|">>, <<"^">>, <<"!", "a">>}

MultiTokens == {Join(ts) : ts \in StrsUpTo(GroupTokens, MaxTokens)}

\* Queries with mixed case, white space around and between tokens, modifiers.
OtherInputs ==
    {<<" ", "a">>, <<"a", " ", " ", "b">>, <<"a", " ">>, <<"A", " ", "b">>,
     <<"a", " ", "A", "b">>, <<"!", "A", " ", "|", " ", "^", "b", "$">>,
     <<"'", "a", "b", " ", "a", "B", "$">>, <<"!", "'", "A", "b">>,
     <<"a", " ", "|", " ", "b", " ", "|", " ", "c">>,
     <<"a", " ", "|", " ", "^", " ", "b", " ", "$", " ", "c">>,
     <<"|", " ", "a", " ", "|", " ", "|", " ", "b", " ", "|">>,
     <<"!", "^", "a", "$">>, <<"!", "^", "A", "$", " ", "!", "'", "^", "b">>,
     <<"|", " ", "^", "$", " ", "!", " ", "'", " ", "$", " ", "|", " ", "|", " ", "!", "^">>,
     <<"F", "o", "o">>, <<"F", "o", "o", " ", "|", " ", "a", " ", "A", "b", "$", " ", "!", "B">>}

BuildInputs == SingleTokens \cup MultiTokens \cup OtherInputs

Item(index, text) ==
    [index |-> index, text |-> text, transformed |-> None, offsets |-> <<>>]

\* The candidate list: one chunk.
ChunkTexts ==
    <<  <<"a", "b">>, <<"a", "c", "b">>, <<"b", "a">>, <<"A", "b">>, <<"a", "$", "b">>  >>

Chunks == {1}

InitChunks == [c \in Chunks |-> [k \in 1..Len(ChunkTexts) |-> Item(k, ChunkTexts[k])]]

\* The pool of workers.
Workers == {1, 2}

IdleWorker == [pc |-> "idle", asString |-> <<>>, pat |-> None, chunk |-> 0,
               item |-> 0, matches |-> <<>>, ret |-> None]

\* A worker outside regex(pattern).
IdleCaller == [pc |-> "idle", pattern |-> <<>>, v |-> None]

InitCommon ==
    /\ fuzzy \in BOOLEAN
    /\ caseMode \in CaseModes
    /\ _patternCache = <<>>
    /\ nextId = 1
    /\ _cache = <<>>
    /\ chunks = InitChunks
    /\ built = None
    /\ issued = <<>>
    /\ call = None
    /\ prev = None
    /\ mi = None
    /\ wk = [w \in Workers |-> IdleWorker]
    /\ races = {}
    /\ regexCache = <<>>
    /\ mutex = None
    /\ rx = [w \in Workers |-> IdleCaller]
    /\ compiled = <<>>
    /\ handed = <<>>

InitBuild ==
    /\ InitCommon
    /\ extended \in BOOLEAN
    /\ nth = <<>>
    /\ input \in BuildInputs

BuildInput == built = None /\ BuildPattern(input)

NextBuild == BuildInput

SpecBuild == InitBuild /\ [][NextBuild]_vars

---------------------------------------------------------------------------
(* Specification of one MatchItem call on the pattern of one query. *)

\* Most tokens of a query in the item specification.
MaxItemTokens == 4

ItemTokens == {<<"a">>, <<"b">>, <<"c">>, <<"!", "a">>, <<"|">>}

ItemQueries == {Join(ts) : ts \in StrsUpTo(ItemTokens, MaxItemTokens)}

ItemTexts ==
    {<<>>, <<"a">>, <<"b">>, <<"b", "a">>, <<"b", "c">>, <<"a", "c", "b">>,
     <<"c", ",", "a", "b">>, <<"a", ",", "c">>, <<"b", ",", "c">>}

NthChoices == {<<>>, <<2, 1>>}

InitItem ==
    /\ InitCommon
    /\ extended \in BOOLEAN
    /\ nth \in NthChoices
    /\ input \in ItemQueries

NextItem ==
    \/ BuildInput
    \/ \E text \in ItemTexts : MatchItemCall(text)

SpecItem == InitItem /\ [][NextItem]_vars

---------------------------------------------------------------------------
(* The running program: the user types queries, each is built and matched  *)
(* against the chunk; the caches may be cleared when the list is reloaded. *)

Queries ==
    {<<"a">>, <<"b">>, <<"a", "b">>, <<"'", "a", "b">>, <<"A">>, <<"a", " ">>,
     <<"a", " ", "|", " ", "b">>, <<"!", "c", " ", "a", "b">>,
     <<"a", "$">>, <<"a", "$", "b">>}

Init ==
    /\ InitCommon
    /\ extended \in BOOLEAN
    /\ nth = <<>>
    /\ input = <<>>

Next ==
    \/ \E runes \in Queries : BuildPattern(runes)
    \/ \E chunk \in Chunks : Match(chunk)
    \/ clearPatternCache
    \/ clearChunkCache

Spec == Init /\ [][Next]_vars

---------------------------------------------------------------------------
(* The workers: BuildPattern and Match called concurrently. Neither takes  *)
(* a lock, so a step of one worker may fall between the lookup and the     *)
(* insert of another. Two unsynchronized writers of a Go map may also make *)
(* the runtime abort the process.                                          *)

ConcQueries == {<<"a">>, <<"a", "b">>}

Building == {w \in Workers : wk[w].pc = "build"}

\* BuildPattern up to "if found { return cached }"
BuildLookup(w, runes) ==
    LET asString == Normalize(extended, runes)
        found == asString \in DOMAIN _patternCache
        seen == IF asString \in DOMAIN issued THEN issued[asString] ELSE {}
    IN /\ "fatal" \notin races
       /\ wk[w].pc = "idle"
       /\ ~found => nextId + Cardinality(Building) <= MaxPatterns
       /\ wk' = [wk EXCEPT ![w] =
                    IF found
                    THEN [@ EXCEPT !.asString = asString,
                                   !.pat = <<_patternCache[asString]>>]
                    ELSE [@ EXCEPT !.pc = "build", !.asString = asString]]
       /\ issued' = IF found
                    THEN Put(issued, asString, seen \cup {_patternCache[asString].id})
                    ELSE issued
       /\ UNCHANGED <<modeVars, _patternCache, nextId, built, matchVars, input, mi, races, regexVars>>

\* BuildPattern from the miss to "return ptr"
BuildInsert(w) ==
    LET asString == wk[w].asString
        ptr == NewPattern(nextId, fuzzy, extended, caseMode, asString)
        seen == IF asString \in DOMAIN issued THEN issued[asString] ELSE {}
    IN /\ "fatal" \notin races
       /\ wk[w].pc = "build"
       /\ _patternCache' = Put(_patternCache, ptr.text, ptr)
       /\ nextId' = nextId + 1
       /\ wk' = [wk EXCEPT ![w] = [@ EXCEPT !.pc = "idle", !.pat = <<ptr>>]]
       /\ issued' = Put(issued, asString, seen \cup {ptr.id})
       /\ races' = IF ptr.text \in DOMAIN _patternCache
                   THEN races \cup {"pattern replaced"} ELSE races
       /\ UNCHANGED <<modeVars, built, matchVars, input, mi, regexVars>>

\* Two workers write _patternCache at once: "fatal error: concurrent map writes"
BuildFatal(w) ==
    /\ "fatal" \notin races
    /\ wk[w].pc = "build"
    /\ Building # {w}
    /\ races' = races \cup {"fatal"}
    /\ UNCHANGED <<modeVars, memoVars, matchVars, input, mi, wk, regexVars>>

\* Match up to the exact lookup
MatchFind(w, chunk) ==
    /\ "fatal" \notin races
    /\ wk[w].pc = "idle"
    /\ wk[w].pat # None
    /\ LET p == wk[w].pat[1]
       IN wk' = [wk EXCEPT ![w] =
                    IF ExactHit(p, _cache, chunk)
                    THEN [@ EXCEPT !.chunk = chunk,
                                   !.ret = <<_cache[<<chunk, CacheKey(p)>>]>>]
                    ELSE [@ EXCEPT !.pc = "scan", !.chunk = chunk, !.ret = None]]
    /\ UNCHANGED <<modeVars, memoVars, matchVars, input, mi, races, regexVars>>

\* Match from the ancestor loop to matchChunk
MatchScan(w) ==
    /\ "fatal" \notin races
    /\ wk[w].pc = "scan"
    /\ LET p == wk[w].pat[1]
           sc == ScanCall(p, nth, _cache, wk[w].chunk, chunks[wk[w].chunk])
       IN /\ chunks' = [chunks EXCEPT ![wk[w].chunk] = sc.items]
          /\ wk' = [wk EXCEPT ![w] =
                       IF p.cacheable
                       THEN [@ EXCEPT !.pc = "add", !.matches = sc.matches]
                       ELSE [@ EXCEPT !.pc = "idle", !.ret = <<sc.matches>>]]
    /\ UNCHANGED <<modeVars, memoVars, _cache, call, prev, input, mi, races, regexVars>>

\* Match from _cache.Add to the return
MatchAdd(w) ==
    /\ "fatal" \notin races
    /\ wk[w].pc = "add"
    /\ LET key == CacheKey(wk[w].pat[1])
       IN /\ _cache' = Add(_cache, wk[w].chunk, key, wk[w].matches)
          /\ races' = IF Find(_cache, wk[w].chunk, key)
                      THEN races \cup {"result replaced"} ELSE races
    /\ wk' = [wk EXCEPT ![w] = [@ EXCEPT !.pc = "idle", !.matches = <<>>,
                                         !.ret = <<wk[w].matches>>]]
    /\ UNCHANGED <<modeVars, memoVars, chunks, call, prev, input, mi, regexVars>>

InitConc ==
    /\ InitCommon
    /\ extended \in BOOLEAN
    /\ nth = <<>>
    /\ input = <<>>

NextConc ==
    \/ \E w \in Workers, runes \in ConcQueries : BuildLookup(w, runes)
    \/ \E w \in Workers : BuildInsert(w)
    \/ \E w \in Workers : BuildFatal(w)
    \/ \E w \in Workers, chunk \in Chunks : MatchFind(w, chunk)
    \/ \E w \in Workers : MatchScan(w)
    \/ \E w \in Workers : MatchAdd(w)

SpecConc == InitConc /\ [][NextConc]_vars

---------------------------------------------------------------------------
(* prepareInput called by the workers on the items of a chunk: the test of *)
(* item.transformed and the assignment to it are two steps with no lock    *)
(* between them. A read of the slot made while another worker is between   *)
(* its test and its assignment races with that assignment; the slot is a   *)
(* slice header of three words, so the racing read may see it half         *)
(* written.                                                                *)

\* The workers between the test of the slot and the assignment to it.
Projecting(chunk, k) ==
    {w \in Workers : wk[w].pc = "project" /\ wk[w].chunk = chunk /\ wk[w].item = k}

\* prepareInput up to "if item.transformed != nil { return item.transformed }"
prepareRead(w, chunk, k) ==
    /\ wk[w].pc = "idle"
    /\ LET item == chunks[chunk][k]
       IN wk' = [wk EXCEPT ![w] =
                    IF item.transformed # None
                    THEN [@ EXCEPT !.chunk = chunk, !.item = k,
                                   !.ret = <<prepareInput(nth, item)>>]
                    ELSE [@ EXCEPT !.pc = "project", !.chunk = chunk, !.item = k,
                                   !.ret = None]]
    /\ UNCHANGED <<modeVars, memoVars, matchVars, input, mi, races, regexVars>>

\* The same test made while another worker assigns the slot: the slice
\* header read is neither nil nor the projection.
prepareReadTorn(w, chunk, k) ==
    /\ wk[w].pc = "idle"
    /\ chunks[chunk][k].transformed = None
    /\ Projecting(chunk, k) # {}
    /\ wk' = [wk EXCEPT ![w] = [@ EXCEPT !.chunk = chunk, !.item = k,
                                         !.ret = <<"torn">>]]
    /\ races' = races \cup {"torn read"}
    /\ UNCHANGED <<modeVars, memoVars, matchVars, input, mi, regexVars>>

\* prepareInput from the computation of ret to "return ret"
prepareWrite(w) ==
    /\ wk[w].pc = "project"
    /\ LET item == chunks[wk[w].chunk][wk[w].item]
           ret == Projection(nth, item.text)
       IN /\ chunks' = [chunks EXCEPT ![wk[w].chunk][wk[w].item].transformed = <<ret>>]
          /\ wk' = [wk EXCEPT ![w] = [@ EXCEPT !.pc = "idle", !.ret = <<ret>>]]
          /\ races' = IF item.transformed # None
                      THEN races \cup {"slot rewritten"} ELSE races
    /\ UNCHANGED <<modeVars, memoVars, _cache, call, prev, input, mi, regexVars>>

InitPrep ==
    /\ InitCommon
    /\ extended = TRUE
    /\ nth \in NthChoices
    /\ input = <<>>

NextPrep ==
    \/ \E w \in Workers, chunk \in Chunks, k \in 1..Len(ChunkTexts) : prepareRead(w, chunk, k)
    \/ \E w \in Workers, chunk \in Chunks, k \in 1..Len(ChunkTexts) :
          prepareReadTorn(w, chunk, k)
    \/ \E w \in Workers : prepareWrite(w)

SpecPrep == InitPrep /\ [][NextPrep]_vars

---------------------------------------------------------------------------
(* regex(pattern) of the migemo part, called by the workers through        *)
(* FindStringIndex: mutex.Lock(), the lookup in cache, migemo.Compile and  *)
(* the insert on a miss, and the deferred mutex.Unlock() on return.        *)

RegexPatterns == {<<"a">>, <<"a", "b">>, <<"(">>}

\* migemo.Compile returns an error for these.
CompileFails(pattern) == pattern = <<"(">>

\* errorExit has ended the process.
Exited == \E w \in Workers : rx[w].pc = "exit"

\* The objects migemo.Compile has made so far.
Objects == UNION {compiled[q] : q \in DOMAIN compiled}

\* mutex.Lock() taken without waiting for the holder.
regexLock_NoWait(w, pattern) ==
    /\ ~Exited
    /\ rx[w].pc = "idle"
    /\ mutex' = <<w>>
    /\ rx' = [rx EXCEPT ![w] = [pc |-> "lookup", pattern |-> pattern, v |-> None]]
    /\ UNCHANGED <<regexCache, compiled, handed,
                 modeVars, memoVars, matchVars, input, mi, concVars>>

\* mutex.Lock(); defer mutex.Unlock()
regexLock(w, pattern) ==
    /\ ~Exited
    /\ rx[w].pc = "idle"
    /\ mutex = None
    /\ mutex' = <<w>>
    /\ rx' = [rx EXCEPT ![w] = [pc |-> "lookup", pattern |-> pattern, v |-> None]]
    /\ UNCHANGED <<regexCache, compiled, handed,
                 modeVars, memoVars, matchVars, input, mi, concVars>>

\* v, ok := cache[pattern]; if ok { return v }
regexLookup(w) ==
    /\ ~Exited
    /\ rx[w].pc = "lookup"
    /\ rx' = [rx EXCEPT ![w] =
                 IF rx[w].pattern \in DOMAIN regexCache
                 THEN [@ EXCEPT !.pc = "return", !.v = <<regexCache[rx[w].pattern]>>]
                 ELSE [@ EXCEPT !.pc = "compile"]]
    /\ UNCHANGED <<regexCache, mutex, compiled, handed,
                 modeVars, memoVars, matchVars, input, mi, concVars>>

\* re, err := migemo.Compile(dict, pattern); if err != nil { errorExit(...) }
regexCompile(w) ==
    /\ ~Exited
    /\ rx[w].pc = "compile"
    /\ LET pattern == rx[w].pattern
           re == Cardinality(Objects) + 1
           made == IF pattern \in DOMAIN compiled THEN compiled[pattern] ELSE {}
       IN IF CompileFails(pattern)
          THEN /\ rx' = [rx EXCEPT ![w] = [@ EXCEPT !.pc = "exit"]]
               /\ UNCHANGED compiled
          ELSE /\ rx' = [rx EXCEPT ![w] = [@ EXCEPT !.pc = "insert", !.v = <<re>>]]
               /\ compiled' = Put(compiled, pattern, made \cup {re})
    /\ UNCHANGED <<regexCache, mutex, handed,
                 modeVars, memoVars, matchVars, input, mi, concVars>>

\* cache[pattern] = re; return re
regexInsert(w) ==
    /\ ~Exited
    /\ rx[w].pc = "insert"
    /\ regexCache' = Put(regexCache, rx[w].pattern, rx[w].v[1])
    /\ rx' = [rx EXCEPT ![w] = [@ EXCEPT !.pc = "return"]]
    /\ UNCHANGED <<mutex, compiled, handed,
                 modeVars, memoVars, matchVars, input, mi, concVars>>

\* The return to the caller: the deferred mutex.Unlock() runs.
regexReturn(w) ==
    /\ ~Exited
    /\ rx[w].pc = "return"
    /\ LET pattern == rx[w].pattern
           got == IF pattern \in DOMAIN handed THEN handed[pattern] ELSE {}
       IN handed' = Put(handed, pattern, got \cup {rx[w].v[1]})
    /\ mutex' = None
    /\ rx' = [rx EXCEPT ![w] = [@ EXCEPT !.pc = "idle"]]
    /\ UNCHANGED <<regexCache, compiled,
                 modeVars, memoVars, matchVars, input, mi, concVars>>

InitRegex ==
    /\ InitCommon
    /\ extended = TRUE
    /\ nth = <<>>
    /\ input = <<>>

NextRegex ==
    \/ \E w \in Workers, pattern \in RegexPatterns : regexLock(w, pattern)
    \/ \E w \in Workers : regexLookup(w)
    \/ \E w \in Workers : regexCompile(w)
    \/ \E w \in Workers : regexInsert(w)
    \/ \E w \in Workers : regexReturn(w)

SpecRegex == InitRegex /\ [][NextRegex]_vars

---------------------------------------------------------------------------
(* The query grammar as the specification words it, for the claims below.  *)

UpperChars == {"A", "B", "F"}

HasUpper(s) == \E i \in 1..Len(s) : s[i] \in UpperChars

\* The tokens of the typed query in extended mode.
TypedTokens == Split(Trim(input))

IsPipe(token) == token = <<"|">>

Body(token) == IF HasPrefix(token, "!") THEN Tail(token) ELSE token

\* The one rule that applies to a token, in priority order.
Rule(token) ==
    LET b == Body(token)
    IN IF HasPrefix(b, "'") THEN "flip"
       ELSE IF HasPrefix(b, "^") /\ HasSuffix(b, "$") THEN "equal"
       ELSE IF HasPrefix(b, "^") THEN "prefix"
       ELSE IF HasSuffix(b, "$") THEN "suffix"
       ELSE "default"

\* The token without the modifiers its rule strips.
Stripped(token) ==
    LET b == Body(token)
        r == Rule(token)
    IN IF r = "flip" \/ r = "prefix" THEN Tail(b)
       ELSE IF r = "equal" THEN (IF Len(b) < 2 THEN <<>> ELSE SubSeq(b, 2, Len(b) - 1))
       ELSE IF r = "suffix" THEN SubSeq(b, 1, Len(b) - 1)
       ELSE b

KindOf(fz, token) ==
    LET r == Rule(token)
        default == IF fz THEN "termFuzzy" ELSE "termExact"
        flipped == IF fz THEN "termExact" ELSE "termFuzzy"
    IN CASE r = "flip" -> flipped
         [] r = "equal" -> "termEqual"
         [] r = "prefix" -> "termPrefix"
         [] r = "suffix" -> "termSuffix"
         [] OTHER -> default

\* The positions of the tokens that stand for a Term.
RECURSIVE TermPositions(_, _)
TermPositions(tokens, i) ==
    IF i > Len(tokens) THEN <<>>
    ELSE (IF ~IsPipe(tokens[i]) /\ Stripped(tokens[i]) # <<>> THEN <<i>> ELSE <<>>)
         \o TermPositions(tokens, i + 1)

RECURSIVE Flatten(_)
Flatten(termSets) ==
    IF Len(termSets) = 0 THEN <<>> ELSE Head(termSets) \o Flatten(Tail(termSets))

\* The group (1-based) holding the k-th Term of the flattened TermSets.
RECURSIVE GroupIndex(_, _, _)
GroupIndex(termSets, k, s) ==
    IF k <= Len(termSets[s]) THEN s
    ELSE GroupIndex(termSets, k - Len(termSets[s]), s + 1)

TermTexts(termSets) ==
    [s \in 1..Len(termSets) |-> [t \in 1..Len(termSets[s]) |-> termSets[s][t].text]]

CaseSensitiveBy(cm, text) ==
    cm = "CaseRespect" \/ (cm = "CaseSmart" /\ HasUpper(text))

FoldBy(caseSensitive, text) == IF caseSensitive THEN text ELSE ToLower(text)

BuiltExtended == built # None /\ built[1].pat.extended

---------------------------------------------------------------------------
(* Claims about BuildPattern and parseTerms, checked under SpecBuild. *)

\* C3: a Pattern returned by BuildPattern is cacheable iff every one of its
\* TermSets has exactly one Term and none of its Terms is inverted.
C3_CacheableIff ==
    built # None =>
        LET p == built[1].pat
        IN p.cacheable <=>
              \A s \in 1..Len(p.termSets) :
                 /\ Len(p.termSets[s]) = 1
                 /\ \A t \in 1..Len(p.termSets[s]) : ~p.termSets[s][t].inv

\* An OR group without any inverted Term, and a pattern that is not cacheable.
C3_Witness ==
    /\ BuiltExtended
    /\ ~built[1].pat.cacheable
    /\ \E s \in 1..Len(built[1].pat.termSets) : Len(built[1].pat.termSets[s]) > 1
    /\ \A s \in 1..Len(built[1].pat.termSets) :
          \A t \in 1..Len(built[1].pat.termSets[s]) : ~built[1].pat.termSets[s][t].inv

\* C7: the Terms are those of the tokens that stand for one, in token order;
\* two neighbouring Terms share a group iff a literal "|" token lies between
\* their tokens; "a | b c" gives [[a,b],[c]], "a b" gives [[a],[b]] and
\* "a | b | c" gives [[a,b,c]].
C7_ParserGrouping ==
    BuiltExtended =>
        LET sets == built[1].pat.termSets
            flat == Flatten(sets)
            pos == TermPositions(TypedTokens, 1)
        IN /\ Len(flat) = Len(pos)
           /\ \A k \in 1..Len(flat) :
                 flat[k].origText = FoldBy(flat[k].caseSensitive, TypedTokens[pos[k]])
           /\ \A k \in 1..(Len(flat) - 1) :
                 (GroupIndex(sets, k, 1) = GroupIndex(sets, k + 1, 1))
                 <=> \E j \in (pos[k] + 1)..(pos[k + 1] - 1) : IsPipe(TypedTokens[j])
           /\ input = <<"a", " ", "|", " ", "b", " ", "c">>
                 => TermTexts(sets) = << << <<"a">>, <<"b">> >>, << <<"c">> >> >>
           /\ input = <<"a", " ", "b">>
                 => TermTexts(sets) = << << <<"a">> >>, << <<"b">> >> >>
           /\ input = <<"a", " ", "|", " ", "b", " ", "|", " ", "c">>
                 => TermTexts(sets) = << << <<"a">>, <<"b">>, <<"c">> >> >>

\* A Term joined to the open group across a dropped token, and a later Term
\* that opened a new group.
C7_Witness ==
    /\ BuiltExtended
    /\ input = <<"a", " ", "|", " ", "^", " ", "b", " ", "$", " ", "c">>
    /\ TermTexts(built[1].pat.termSets) = << << <<"a">>, <<"b">> >>, << <<"c">> >> >>

\* C8: the Term of a token is inverted iff the token starts with "!", its
\* kind is that of the one rule that applies in priority order (quote, caret
\* with dollar, caret, dollar, default), and its match text is the token
\* without the stripped modifiers.
C8_ParserTermKinds ==
    BuiltExtended =>
        LET flat == Flatten(built[1].pat.termSets)
            pos == TermPositions(TypedTokens, 1)
        IN /\ Len(flat) = Len(pos)
           /\ \A k \in 1..Len(flat) :
                 LET token == TypedTokens[pos[k]]
                 IN /\ flat[k].inv = HasPrefix(token, "!")
                    /\ flat[k].typ = KindOf(built[1].pat.fuzzy, token)
                    /\ flat[k].text = FoldBy(flat[k].caseSensitive, Stripped(token))

\* An inverted Equal Term whose token carried "!", "^" and "$".
C8_Witness ==
    /\ BuiltExtended
    /\ input = <<"!", "^", "a", "$">>
    /\ built[1].pat.termSets =
          << << [typ |-> "termEqual", inv |-> TRUE, text |-> <<"a">>,
                 caseSensitive |-> caseMode = "CaseRespect",
                 origText |-> <<"!", "^", "a", "$">>] >> >>

\* C9: a Term (extended mode) or the query (basic mode) is case-sensitive
\* under Respect, never under Ignore, and under Smart iff its text has an
\* upper-case character; the match text is lower-cased iff it is not
\* case-sensitive; in extended mode each token decides for itself.
C9_CaseResolution ==
    built # None =>
        LET p == built[1].pat
            flat == Flatten(p.termSets)
            pos == TermPositions(TypedTokens, 1)
        IN IF p.extended
           THEN /\ Len(flat) = Len(pos)
                /\ \A k \in 1..Len(flat) :
                      LET token == TypedTokens[pos[k]]
                          cs == CaseSensitiveBy(caseMode, token)
                      IN /\ flat[k].caseSensitive = cs
                         /\ flat[k].text = IF cs THEN Stripped(token)
                                           ELSE ToLower(Stripped(token))
           ELSE LET cs == CaseSensitiveBy(caseMode, input)
                IN /\ p.caseSensitive = cs
                   /\ p.text = IF cs THEN input ELSE ToLower(input)

\* Smart case: one query whose first Term is case-sensitive and whose second
\* is not.
C9_Witness ==
    /\ BuiltExtended
    /\ caseMode = "CaseSmart"
    /\ input = <<"A", " ", "b">>
    /\ Len(built[1].pat.termSets) = 2
    /\ built[1].pat.termSets[1][1].caseSensitive
    /\ ~built[1].pat.termSets[2][1].caseSensitive

\* The texts that make the cache key: texts[k] for the k-th Term when it is
\* alone in its group and not inverted, in group order.
RECURSIVE KeyParts(_, _, _, _)
KeyParts(sets, texts, s, k) ==
    IF s > Len(sets) THEN <<>>
    ELSE (IF Len(sets[s]) = 1 /\ ~sets[s][1].inv THEN <<texts[k]>> ELSE <<>>)
         \o KeyParts(sets, texts, s + 1, k + Len(sets[s]))

\* The typed token of each Term, as typed.
TermTokens ==
    LET pos == TermPositions(TypedTokens, 1)
    IN [k \in 1..Len(pos) |-> TypedTokens[pos[k]]]

\* The typed token of each Term, lower-cased unless the case mode makes the
\* token case-sensitive.
TermTokensFolded ==
    [k \in 1..Len(TermTokens) |->
        FoldBy(CaseSensitiveBy(caseMode, TermTokens[k]), TermTokens[k])]

Foo == <<"F", "o", "o">>

\* C13 as claimed: the cache key of an extended Pattern is the space-joined
\* tokens, as typed before any case folding and with their modifiers, of the
\* groups made of one non-inverted Term, in group order; under Ignore the key
\* of "Foo" is "Foo".
C13_CacheKeyPreFold ==
    BuiltExtended =>
        LET p == built[1].pat
        IN /\ Len(Flatten(p.termSets)) = Len(TermTokens)
           /\ CacheKey(p) = Join(KeyParts(p.termSets, TermTokens, 1, 1))
           /\ (caseMode = "CaseIgnore" /\ input = Foo) => CacheKey(p) = Foo

\* C13 as amended: the cache key of an extended Pattern is the space-joined
\* tokens, with their modifiers and after the case resolution of each token
\* (lower-cased unless the token is case-sensitive), of the groups made of
\* one non-inverted Term, in group order; under Ignore the key of "Foo" is
\* "foo".
C13_CacheKeyFolded ==
    BuiltExtended =>
        LET p == built[1].pat
        IN /\ Len(Flatten(p.termSets)) = Len(TermTokens)
           /\ CacheKey(p) = Join(KeyParts(p.termSets, TermTokensFolded, 1, 1))
           /\ (caseMode = "CaseIgnore" /\ input = Foo) => CacheKey(p) = ToLower(Foo)
           /\ (caseMode # "CaseIgnore" /\ input = Foo) => CacheKey(p) = Foo

\* An OR group, an upper-case suffix Term alone in its group and an inverted
\* Term under Ignore: the key is the suffix token, lower-cased and with its
\* "$", and nothing of the other groups.
C13_Witness ==
    /\ BuiltExtended
    /\ caseMode = "CaseIgnore"
    /\ input = <<"F", "o", "o", " ", "|", " ", "a", " ", "A", "b", "$", " ", "!", "B">>
    /\ Len(built[1].pat.termSets) = 3
    /\ CacheKey(built[1].pat) = <<"a", "b", "$">>

\* A token that stands for no Term: the literal "|", or one with nothing
\* left once its modifiers are stripped.
Degenerate(token) == IsPipe(token) \/ Stripped(token) = <<>>

\* C17: parseTerms returns, for every query, TermSets none of which is empty
\* and Terms none of whose match text is empty, one Term for each token that
\* is not degenerate and none for the others, without slicing out of bounds;
\* a query of degenerate tokens only has no TermSet, IsEmpty is true of its
\* Pattern and every item matches it.
C17_ParserPermissive ==
    BuiltExtended =>
        LET p == built[1].pat
            sets == p.termSets
            kept == {i \in 1..Len(TypedTokens) : ~Degenerate(TypedTokens[i])}
        IN /\ \A s \in 1..Len(sets) :
                 /\ Len(sets[s]) >= 1
                 /\ \A t \in 1..Len(sets[s]) : Len(sets[s][t].text) >= 1
           /\ Len(Flatten(sets)) = Cardinality(kept)
           /\ \A i \in 1..Len(TypedTokens) :
                 Rule(TypedTokens[i]) = "equal" => Len(Body(TypedTokens[i])) >= 2
           /\ IsEmpty(p) <=> kept = {}
           /\ kept = {} =>
                 /\ sets = <<>>
                 /\ \A c \in Chunks : \A k \in 1..Len(chunks[c]) :
                       MatchItem(p, nth, chunks[c][k])
                 /\ \A c \in Chunks :
                       Len(matchChunk(p, nth, chunks[c])) = Len(chunks[c])

\* A query of stray "|" tokens and of tokens that are modifiers only.
C17_Witness ==
    /\ BuiltExtended
    /\ input = <<"|", " ", "^", "$", " ", "!", " ", "'", " ", "$", " ", "|", " ",
                 "|", " ", "!", "^">>
    /\ Len(TypedTokens) = 8
    /\ built[1].pat.termSets = <<>>
    /\ IsEmpty(built[1].pat)

\* A query where degenerate tokens lie between the tokens of two Terms.
C17_WitnessMixed ==
    /\ BuiltExtended
    /\ input = <<"|", " ", "a", " ", "|", " ", "|", " ", "b", " ", "|">>
    /\ Len(built[1].pat.termSets) = 1
    /\ Len(built[1].pat.termSets[1]) = 2

---------------------------------------------------------------------------
(* Claims about MatchItem, checked under SpecItem. *)

\* The projected fields of the item MatchItem was called on.
FieldsOf(item) == item.transformed[1]

\* The matcher of a Term hits on some projected field.
Hits(term, fields) ==
    \E f \in 1..Len(fields) :
        procFun(term.typ, term.caseSensitive, Forward, fields[f].text, term.text)[1] >= 0

\* The offset of a Term that hits: its span in the first field it hits on,
\* moved by the field's prefix length, with the field's trimmed length.
OffsetOf(term, fields) ==
    LET f == CHOOSE f \in 1..Len(fields) :
                /\ Hits(term, <<fields[f]>>)
                /\ \A g \in 1..(f - 1) : ~Hits(term, <<fields[g]>>)
        r == procFun(term.typ, term.caseSensitive, Forward, fields[f].text, term.text)
    IN <<r[1] + fields[f].prefixLength, r[2] + fields[f].prefixLength,
         fields[f].trimLength>>

\* The leftmost Term of a group that hits.
Leftmost(termSet, fields) ==
    CHOOSE t \in 1..Len(termSet) :
        /\ Hits(termSet[t], fields)
        /\ \A u \in 1..(t - 1) : ~Hits(termSet[u], fields)

NoInverted(p) ==
    \A s \in 1..Len(p.termSets) : \A t \in 1..Len(p.termSets[s]) : ~p.termSets[s][t].inv

\* C10: for an extended Pattern without inverted Terms, MatchItem is true iff
\* in every TermSet some Term hits on some projected field of the item, and
\* the offset recorded for a group is that of its leftmost hitting Term.
C10_OrAndCombination ==
    (mi # None /\ built[1].pat.extended /\ NoInverted(built[1].pat)) =>
        LET p == built[1].pat
            fields == FieldsOf(mi[1].item)
        IN /\ mi[1].ret <=>
                 \A s \in 1..Len(p.termSets) :
                    \E t \in 1..Len(p.termSets[s]) : Hits(p.termSets[s][t], fields)
           /\ mi[1].ret =>
                 /\ Len(mi[1].offsets) = Len(p.termSets)
                 /\ \A s \in 1..Len(p.termSets) :
                       mi[1].offsets[s] =
                          OffsetOf(p.termSets[s][Leftmost(p.termSets[s], fields)], fields)

\* "a | b c" on an item where a misses, b and c hit: the item matches, and the
\* first group's offset is b's.
C10_Witness ==
    /\ mi # None
    /\ built[1].pat.extended
    /\ NoInverted(built[1].pat)
    /\ mi[1].ret
    /\ Len(built[1].pat.termSets) = 2
    /\ Len(built[1].pat.termSets[1]) = 2
    /\ ~Hits(built[1].pat.termSets[1][1], FieldsOf(mi[1].item))
    /\ Hits(built[1].pat.termSets[1][2], FieldsOf(mi[1].item))
    /\ Len(FieldsOf(mi[1].item)) = 2

\* A Pattern made of one inverted Term.
SingleInverted(p) ==
    /\ p.extended
    /\ Len(p.termSets) = 1
    /\ Len(p.termSets[1]) = 1
    /\ p.termSets[1][1].inv

\* C11: for a Pattern made of a single inverted Term !x, an item matches iff
\* the matcher of x hits on none of the item's projected fields, and a
\* matching item carries exactly one offset, the placeholder (0,0,0).
C11_Inversion ==
    (mi # None /\ SingleInverted(built[1].pat)) =>
        LET term == built[1].pat.termSets[1][1]
            fields == FieldsOf(mi[1].item)
        IN /\ mi[1].ret <=> ~Hits(term, fields)
           /\ mi[1].ret => mi[1].offsets = << <<0, 0, 0>> >>
           /\ ~mi[1].ret => mi[1].offsets = <<>>

\* "!a" on an item with two projected fields, neither holding an a.
C11_Witness ==
    /\ mi # None
    /\ SingleInverted(built[1].pat)
    /\ mi[1].ret
    /\ mi[1].offsets = << <<0, 0, 0>> >>
    /\ Len(FieldsOf(mi[1].item)) = 2
    /\ \E f \in 1..2 : Len(FieldsOf(mi[1].item)[f].text) > 0

\* An alternative is satisfied: an inverted Term when its matcher misses on
\* every field, any other Term when its matcher hits on some field.
Satisfied(term, fields) ==
    IF term.inv THEN ~Hits(term, fields) ELSE Hits(term, fields)

\* A Pattern made of one group of two alternatives.
OneGroupOfTwo(p) ==
    /\ p.extended
    /\ Len(p.termSets) = 1
    /\ Len(p.termSets[1]) = 2

\* The same Pattern with the two alternatives written in the other order.
Swapped(p) == [p EXCEPT !.termSets = << <<p.termSets[1][2], p.termSets[1][1]>> >>]

\* C12: a candidate satisfies a group t1 | t2, either of which may be
\* inverted, iff it satisfies t1 or it satisfies t2, and the outcome is the
\* same when the alternatives are written in the other order.
C12_OrWithInverted ==
    (mi # None /\ OneGroupOfTwo(built[1].pat)) =>
        LET p == built[1].pat
            fields == FieldsOf(mi[1].item)
        IN /\ mi[1].ret <=> (\/ Satisfied(p.termSets[1][1], fields)
                             \/ Satisfied(p.termSets[1][2], fields))
           /\ mi[1].ret = MatchItem(Swapped(p), nth, mi[1].item)

\* The alternatives of a group that end its evaluation: a Term that hits, or
\* an inverted Term.
Decisive(termSet, fields) ==
    {t \in 1..Len(termSet) : termSet[t].inv \/ Hits(termSet[t], fields)}

\* What the evaluation of a group comes to: "satisfied" by a non-inverted hit
\* or by an inverted miss reached before any hit, "abort" by an inverted hit
\* reached before any other hit, "unsatisfied" when every alternative is a
\* non-inverted miss.
Outcome(termSet, fields) ==
    LET ds == Decisive(termSet, fields)
        t == CHOOSE t \in ds : \A u \in ds : t <= u
    IN IF ds = {} THEN "unsatisfied"
       ELSE IF termSet[t].inv /\ Hits(termSet[t], fields) THEN "abort"
       ELSE "satisfied"

\* C16: extendedMatch collects one offset for each satisfied group evaluated
\* and none for any other, so never more offsets than TermSets; an inverted
\* Term that hits ends the evaluation of all remaining groups and the item
\* fails; the number of offsets equals the number of TermSets iff every
\* group is satisfied and no inverted hit is reached.
C16_ExtendedBookkeeping ==
    (mi # None /\ built[1].pat.extended) =>
        LET sets == built[1].pat.termSets
            fields == FieldsOf(mi[1].item)
            out == [s \in 1..Len(sets) |-> Outcome(sets[s], fields)]
            aborts == {s \in 1..Len(sets) : out[s] = "abort"}
            stop == IF aborts = {} THEN Len(sets) + 1
                    ELSE CHOOSE s \in aborts : \A u \in aborts : s <= u
            counted == {s \in 1..(stop - 1) : out[s] = "satisfied"}
        IN /\ Len(mi[1].offsets) <= Len(sets)
           /\ Len(mi[1].offsets) = Cardinality(counted)
           /\ aborts # {} => (~mi[1].ret /\ Len(mi[1].offsets) < Len(sets))
           /\ (Len(mi[1].offsets) = Len(sets))
                 <=> \A s \in 1..Len(sets) : out[s] = "satisfied"
           /\ mi[1].ret <=> (Len(mi[1].offsets) = Len(sets))

\* Three groups: the first satisfied, the second an inverted Term that hits,
\* the third one that would have been satisfied; one offset was collected.
C16_Witness ==
    /\ mi # None
    /\ built[1].pat.extended
    /\ Len(built[1].pat.termSets) = 3
    /\ Outcome(built[1].pat.termSets[1], FieldsOf(mi[1].item)) = "satisfied"
    /\ Outcome(built[1].pat.termSets[2], FieldsOf(mi[1].item)) = "abort"
    /\ Outcome(built[1].pat.termSets[3], FieldsOf(mi[1].item)) = "satisfied"
    /\ Len(mi[1].offsets) = 1
    /\ ~mi[1].ret

\* An unsatisfied group does not end the evaluation: the groups after it
\* still add their offsets, and the item fails on the count.
C16_WitnessUnsatisfied ==
    /\ mi # None
    /\ built[1].pat.extended
    /\ Len(built[1].pat.termSets) = 3
    /\ Outcome(built[1].pat.termSets[1], FieldsOf(mi[1].item)) = "unsatisfied"
    /\ Len(mi[1].offsets) = 2
    /\ ~mi[1].ret

---------------------------------------------------------------------------
(* Claims about Match and the caches, checked under Spec. *)

\* The items of a list, without their memo slot.
ItemSet(list) ==
    {[index |-> list[k].index, text |-> list[k].text, offsets |-> list[k].offsets] :
        k \in 1..Len(list)}

Indices(list) == {list[k].index : k \in 1..Len(list)}

\* C1: Match with a cacheable Pattern returns the same set of items as a
\* direct scan of the full chunk.
C1_CacheEquivalence ==
    (call # None /\ call[1].pat.cacheable) =>
        ItemSet(call[1].ret)
           = ItemSet(matchChunk(call[1].pat, nth, chunks[call[1].chunk]))

\* C2: without a clearPatternCache in between, the BuildPattern calls with
\* one normalized query string all return the same Pattern object.
C2_PatternMemoIdentity ==
    \A asString \in DOMAIN issued : Cardinality(issued[asString]) <= 1

\* a is a non-empty proper prefix or suffix of key
IsAncestor(a, key) ==
    /\ Len(a) >= 1
    /\ Len(a) < Len(key)
    /\ \/ a = SubSeq(key, 1, Len(a))
       \/ a = SubSeq(key, Len(key) - Len(a) + 1, Len(key))

\* C4 as claimed: Match with a non-cacheable Pattern looks up no key at all
\* and evaluates every Item of the full chunk.
C4_NonCacheableBypass ==
    (call # None /\ ~call[1].pat.cacheable) =>
        /\ call[1].probes = <<>>
        /\ Indices(call[1].space) = Indices(chunks[call[1].chunk])

\* C4 as amended: Match with a non-cacheable Pattern never looks up its exact
\* key and stores nothing; it looks up only proper prefix/suffix ancestors of
\* its cache key, and evaluates the Items of the first ancestor entry found,
\* or every Item of the full chunk when none is found.
C4_NonCacheableAncestorsOnly ==
    (call # None /\ ~call[1].pat.cacheable) =>
        LET c == call[1]
            cached == {k \in 1..Len(c.probes) : <<c.chunk, c.probes[k]>> \in DOMAIN c.before}
        IN /\ c.hit # "exact"
           /\ \A k \in 1..Len(c.probes) : IsAncestor(c.probes[k], c.key)
           /\ _cache = c.before
           /\ IF cached = {}
              THEN /\ c.hit = "none"
                   /\ Len(c.space) = Len(chunks[c.chunk])
                   /\ Indices(c.space) = Indices(chunks[c.chunk])
              ELSE /\ c.hit = "ancestor"
                   /\ cached = {Len(c.probes)}
                   /\ c.space = c.before[<<c.chunk, c.probes[Len(c.probes)]>>]

\* A non-cacheable Pattern that scanned a cached ancestor's shorter list.
C4_Witness ==
    /\ call # None
    /\ ~call[1].pat.cacheable
    /\ call[1].hit = "ancestor"
    /\ Len(call[1].probes) >= 1
    /\ Len(call[1].space) < Len(chunks[call[1].chunk])

\* C6: two Match calls in succession with the same Pattern on the same chunk
\* return identical results.
C6_MatchIdempotent ==
    (call # None /\ prev # None
       /\ call[1].pat.id = prev[1].pat.id /\ call[1].chunk = prev[1].chunk) =>
        call[1].ret = prev[1].ret

\* The first call scanned a cached ancestor and stored its result, the second
\* found the exact key.
C6_Witness ==
    /\ call # None
    /\ prev # None
    /\ call[1].pat.id = prev[1].pat.id
    /\ call[1].chunk = prev[1].chunk
    /\ prev[1].hit = "ancestor"
    /\ call[1].hit = "exact"
    /\ Len(call[1].ret) >= 1
    /\ call[1].ret = prev[1].ret

\* The same for a non-cacheable Pattern, which scans both times.
C6_WitnessNonCacheable ==
    /\ call # None
    /\ prev # None
    /\ call[1].pat.id = prev[1].pat.id
    /\ ~call[1].pat.cacheable
    /\ Len(call[1].ret) >= 1

\* The keys the claim lists for a key: for d = 1, 2, ..., Len(key) - 1 the key
\* without its last d characters, then the key without its first d characters.
RefAncestors(key) ==
    [n \in 1..(2 * (Len(key) - 1)) |->
        LET d == (n + 1) \div 2
        IN IF n % 2 = 1 THEN SubSeq(key, 1, Len(key) - d)
           ELSE SubSeq(key, d + 1, Len(key))]

\* C14: when the exact key misses (or is not looked up), Match looks up the
\* ancestors of the key in the order last-d-removed, first-d-removed for
\* d = 1, 2, ..., stops at the first one found, whose entry becomes the scan
\* space, never looks up the empty key, and scans the full chunk when none of
\* them is found.
C14_AncestorOrder ==
    (call # None /\ call[1].hit # "exact") =>
        LET c == call[1]
            lead == IF c.pat.cacheable THEN 1 ELSE 0
            anc == SubSeq(c.probes, lead + 1, Len(c.probes))
            ref == RefAncestors(c.key)
            InCache(k) == <<c.chunk, k>> \in DOMAIN c.before
        IN /\ c.pat.cacheable => (c.probes[1] = c.key /\ ~InCache(c.key))
           /\ Len(anc) <= Len(ref)
           /\ anc = SubSeq(ref, 1, Len(anc))
           /\ \A k \in 1..Len(anc) : Len(anc[k]) > 0
           /\ \A k \in 1..(Len(anc) - 1) : ~InCache(anc[k])
           /\ IF \E k \in 1..Len(ref) : InCache(ref[k])
              THEN /\ c.hit = "ancestor"
                   /\ Len(anc) >= 1
                   /\ InCache(anc[Len(anc)])
                   /\ c.space = c.before[<<c.chunk, anc[Len(anc)]>>]
              ELSE /\ c.hit = "none"
                   /\ anc = ref
                   /\ Len(c.space) = Len(chunks[c.chunk])
                   /\ \A k \in 1..Len(c.space) :
                         /\ c.space[k].index = chunks[c.chunk][k].index
                         /\ c.space[k].text = chunks[c.chunk][k].text

\* A key of three characters whose ancestors of length two and whose prefix
\* of length one are not cached, found at its suffix of length one.
C14_Witness ==
    /\ call # None
    /\ call[1].pat.cacheable
    /\ call[1].hit = "ancestor"
    /\ Len(call[1].key) = 3
    /\ Len(call[1].probes) = 5
    /\ call[1].probes[5] = <<call[1].key[3]>>
    /\ \A k \in 1..4 : <<call[1].chunk, call[1].probes[k]>> \notin DOMAIN call[1].before
    /\ call[1].space = call[1].before[<<call[1].chunk, call[1].probes[5]>>]
    /\ Len(call[1].space) >= 1

\* C15: a call of Match changes the result cache by at most adding the one
\* entry (chunk, CacheKey) -> returned result, and only when the Pattern is
\* cacheable and the exact key missed; on an exact hit and for a
\* non-cacheable Pattern the cache is unchanged; the pattern memo table is
\* never changed by Match.
C15_CacheWriteDiscipline ==
    [][\A chunk \in Chunks :
          Match(chunk) =>
             LET p == built[1].pat
                 entry == <<chunk, CacheKey(p)>>
                 miss == entry \notin DOMAIN _cache
             IN /\ _patternCache' = _patternCache
                /\ \A e \in DOMAIN _cache : e \in DOMAIN _cache' /\ _cache'[e] = _cache[e]
                /\ (DOMAIN _cache' \ DOMAIN _cache) \subseteq {entry}
                /\ (p.cacheable /\ miss) =>
                      (entry \in DOMAIN _cache' /\ _cache'[entry] = call'[1].ret)
                /\ (~p.cacheable \/ ~miss) => _cache' = _cache]_vars

\* A cacheable Pattern whose exact key missed scanned the shorter list of an
\* ancestor, and its result is the one entry added, under its own key.
C15_Witness ==
    /\ call # None
    /\ call[1].pat.cacheable
    /\ call[1].hit = "ancestor"
    /\ Len(call[1].space) < Len(chunks[call[1].chunk])
    /\ <<call[1].chunk, call[1].key>> \notin DOMAIN call[1].before
    /\ DOMAIN _cache = DOMAIN call[1].before \cup {<<call[1].chunk, call[1].key>>}
    /\ _cache[<<call[1].chunk, call[1].key>>] = call[1].ret

\* C19: the list Match returns is a subsequence of the chunk by item index:
\* each returned item has the index and the text of an item of the chunk,
\* and the indices increase strictly, whether the list came from an exact
\* hit, from the scan of an ancestor's list or from a full scan.
C19_ResultShape ==
    call # None =>
        LET ret == call[1].ret
            items == chunks[call[1].chunk]
        IN \A k \in 1..Len(ret) :
              /\ ret[k].index \in 1..Len(items)
              /\ items[ret[k].index].index = ret[k].index
              /\ items[ret[k].index].text = ret[k].text
              /\ k < Len(ret) => ret[k].index < ret[k + 1].index

\* The scan of an ancestor's list returned some of its items, not all, and
\* more than one.
C19_Witness ==
    /\ call # None
    /\ call[1].hit = "ancestor"
    /\ Len(call[1].ret) >= 2
    /\ Len(call[1].ret) < Len(call[1].space)

\* The same list returned again by the exact hit of a second call.
C19_WitnessExact ==
    /\ call # None
    /\ call[1].hit = "exact"
    /\ Len(call[1].ret) >= 2
    /\ Len(call[1].ret) < Len(chunks[call[1].chunk])

---------------------------------------------------------------------------
(* Claims about the workers, checked under SpecConc. *)

\* The workers between the exact lookup of Match and its Add.
Matching(chunk, key) ==
    {w \in Workers : /\ wk[w].pc \in {"scan", "add"}
                     /\ wk[w].chunk = chunk
                     /\ CacheKey(wk[w].pat[1]) = key}

\* C5: the lookup and the insert of two workers on the same table entry
\* never interleave, so one Pattern object exists per query and no stored
\* entry is lost or replaced.
C5_MutualExclusion ==
    /\ \A w1, w2 \in Building : wk[w1].asString = wk[w2].asString => w1 = w2
    /\ \A w \in Workers :
          wk[w].pc \in {"scan", "add"} =>
             Matching(wk[w].chunk, CacheKey(wk[w].pat[1])) = {w}
    /\ \A asString \in DOMAIN issued : Cardinality(issued[asString]) <= 1
    /\ races = {}

\* C18: the projection of an Item is written to its slot at most once, and
\* every call of prepareInput on the Item returns the projection the slot
\* holds, under every interleaving of two workers calling prepareInput on
\* the same Item.
C18_ProjectionWriteOnce ==
    /\ "slot rewritten" \notin races
    /\ "torn read" \notin races
    /\ \A w \in Workers :
          (wk[w].pc = "idle" /\ wk[w].ret # None) =>
             /\ chunks[wk[w].chunk][wk[w].item].transformed # None
             /\ wk[w].ret = chunks[wk[w].chunk][wk[w].item].transformed
             /\ wk[w].ret[1] = Projection(nth, chunks[wk[w].chunk][wk[w].item].text)

---------------------------------------------------------------------------
(* Claims about the regex cache, checked under SpecRegex. *)

\* The workers between mutex.Lock() and the deferred mutex.Unlock().
InRegex == {w \in Workers : rx[w].pc \in {"lookup", "compile", "insert", "return"}}

\* At most one worker is inside regex, and it is the holder of the mutex; a
\* worker that has returned does not hold it; no pattern has been compiled
\* twice; no pattern has been answered with two different objects; a cached
\* object is the one compiled for its pattern.
RegexExclusive ==
    /\ Cardinality(InRegex) <= 1
    /\ \A w \in InRegex : mutex = <<w>>
    /\ \A w \in Workers : rx[w].pc = "idle" => mutex # <<w>>
    /\ (InRegex = {} /\ ~Exited) => mutex = None
    /\ \A q \in DOMAIN compiled : Cardinality(compiled[q]) <= 1
    /\ \A q \in DOMAIN handed : Cardinality(handed[q]) <= 1 /\ handed[q] \subseteq compiled[q]
    /\ \A q \in DOMAIN regexCache : compiled[q] = {regexCache[q]}

\* No step removes or replaces an entry of the cache.
RegexCacheGrows ==
    \A q \in DOMAIN regexCache : q \in DOMAIN regexCache' /\ regexCache'[q] = regexCache[q]

\* C20: regex holds the mutex from its lookup to its return, so under every
\* interleaving of the callers each pattern is compiled at most once, the
\* callers of one pattern all receive the same object, the cache only grows
\* and the mutex is released on every return.
C20_RegexCacheLocked == []RegexExclusive /\ [][RegexCacheGrows]_vars

\* Both workers have asked for the same pattern and hold the one object
\* compiled for it, a second pattern is cached too, and the mutex is free.
C20_Witness ==
    /\ \A w \in Workers : rx[w].pc = "idle" /\ rx[w].pattern = <<"a">> /\ rx[w].v # None
    /\ rx[1].v = rx[2].v
    /\ handed[<<"a">>] = compiled[<<"a">>]
    /\ Cardinality(compiled[<<"a">>]) = 1
    /\ <<"a", "b">> \in DOMAIN regexCache
    /\ regexCache[<<"a", "b">>] # regexCache[<<"a">>]
    /\ mutex = None

====
